---- MODULE Spec2Model ----
(***************************************************************************)
(* Latent dynamics models of dymad (src/dymad/models/ldm.py): LDM and its  *)
(* graph counterpart GLDM.  A model instance owns three sub-networks       *)
(* (encoder_net, dynamics_net, decoder_net) built at construction from     *)
(* model_config and data_meta; encoder / dynamics / decoder / forward /    *)
(* predict / diagnostic_info are the operations on it.                     *)
(*                                                                         *)
(* Tensors are modelled by their shape and their provenance:               *)
(*   [lead |-> leading (batch) dimensions, dim |-> trailing dimension,     *)
(*    val  |-> the expression that produced it, in prefix notation]        *)
(* A call either returns a value or raises: [ok, value].                   *)
(***************************************************************************)
EXTENDS Integers, Sequences, FiniteSets, TLC

VARIABLES
    config,   \* the model_config mapping handed to the constructor
    meta,     \* the data_meta mapping handed to the constructor
    model,    \* the constructed instance (self)
    obs,      \* the observation container w, owned by the caller
    op,       \* the last operation called on the instance
    trace,    \* the calls that operation made, in order
    ret       \* what that operation returned (or raised)

vars == <<config, meta, model, obs, op, trace, ret>>

----------------------------------------------------------------------------
(* Bounds of the model *)

MaxLatent == 2
MaxDepth == 1
MaxState == 2
MaxControl == 1
MaxNodes == 2

(* Defaults of the constructor *)

DefaultLatent == 64
DefaultDepth == 2

----------------------------------------------------------------------------
(* Python values *)

\* dict.get(key, default)
Get(d, key, default) == IF key \in DOMAIN d THEN d[key] ELSE default

Ok(v) == [ok |-> TRUE, value |-> v]
Raise(e) == [ok |-> FALSE, value |-> e]

Tensor(lead, dim, val) == [lead |-> lead, dim |-> dim, val |-> val]

\* torch.cat([a, b], dim=-1)
cat(a, b) == Tensor(a.lead, a.dim + b.dim, <<"cat">> \o a.val \o b.val)

----------------------------------------------------------------------------
(* The sub-network builders and their call contract: given (input dim,     *)
(* latent width, output dim, layer count, style options) a builder yields  *)
(* a stage that maps a tensor of trailing width input_dim to one of        *)
(* trailing width output_dim, keeping the leading dimensions.              *)

MLP(name, input_dim, latent_dim, output_dim, n_layers, opts) ==
    [cls |-> "MLP", name |-> name, input_dim |-> input_dim, latent_dim |-> latent_dim,
     output_dim |-> output_dim, n_layers |-> n_layers, opts |-> opts]

GNN(name, input_dim, latent_dim, output_dim, n_layers, opts) ==
    [cls |-> "GNN", name |-> name, input_dim |-> input_dim, latent_dim |-> latent_dim,
     output_dim |-> output_dim, n_layers |-> n_layers, opts |-> opts]

\* the trailing width of the tensor a stage takes, and of the one it gives: a GNN
\* works on n_nodes per-node vectors, flattened into the trailing dimension
InWidth(net) ==
    IF net.cls = "GNN" THEN net.input_dim * net.opts.n_nodes ELSE net.input_dim

OutWidth(net) ==
    IF net.cls = "GNN" THEN net.output_dim * net.opts.n_nodes ELSE net.output_dim

\* net(t) for an MLP
MLP_call(net, t) ==
    IF t.dim = net.input_dim
    THEN Ok(Tensor(t.lead, net.output_dim, <<net.name>> \o t.val))
    ELSE Raise(<<"shape mismatch">>)

\* net(t, edge_index) for a GNN: t holds the features of all nodes, flattened
GNN_call(net, t, edge_index) ==
    IF t.dim = net.input_dim * net.opts.n_nodes
    THEN Ok(Tensor(t.lead, net.output_dim * net.opts.n_nodes,
                   <<net.name>> \o t.val \o edge_index))
    ELSE Raise(<<"shape mismatch">>)

\* net.diagnostic_info(): the sub-network's own one-piece description
Net_diagnostic_info(net) == [kind |-> "info", text |-> net.name]

\* ModelBase.diagnostic_info(): the base description
Base_diagnostic_info(self) == [kind |-> "base", text |-> "ModelBase"]

----------------------------------------------------------------------------
(* LDM *)

\* LDM_opts with another default activation
LDM_opts_relu_default(model_config) ==
    [activation     |-> Get(model_config, "activation", "relu"),
     weight_init    |-> Get(model_config, "weight_init", "xavier_uniform"),
     bias_init      |-> Get(model_config, "bias_init", "zeros"),
     gain           |-> Get(model_config, "gain", "1.0"),
     end_activation |-> Get(model_config, "end_activation", TRUE)]

LDM_opts(model_config) ==
    [activation     |-> Get(model_config, "activation", "prelu"),
     weight_init    |-> Get(model_config, "weight_init", "xavier_uniform"),
     bias_init      |-> Get(model_config, "bias_init", "zeros"),
     gain           |-> Get(model_config, "gain", "1.0"),
     end_activation |-> Get(model_config, "end_activation", TRUE)]

\* LDM_enc_out_dim without the pass-through
LDM_enc_out_dim_always_latent(latent_dimension, enc_depth, n_total_features) ==
    latent_dimension

LDM_enc_out_dim(latent_dimension, enc_depth, n_total_features) ==
    IF enc_depth > 0 THEN latent_dimension ELSE n_total_features

\* LDM_dec_inp_dim with the depth test off by one
LDM_dec_inp_dim_off_by_one(latent_dimension, dec_depth, n_total_features) ==
    IF dec_depth > 1 THEN latent_dimension ELSE n_total_features

LDM_dec_inp_dim(latent_dimension, dec_depth, n_total_features) ==
    IF dec_depth > 0 THEN latent_dimension ELSE n_total_features

LDM_init(model_config, data_meta) ==
    LET n_total_state_features   == data_meta.n_total_state_features
        n_total_control_features == data_meta.n_total_control_features
        n_total_features         == data_meta.n_total_features
        latent_dimension == Get(model_config, "latent_dimension", DefaultLatent)
        input_order == Get(model_config, "input_order", "cubic")
        enc_depth  == Get(model_config, "encoder_layers", DefaultDepth)
        proc_depth == Get(model_config, "processor_layers", DefaultDepth)
        dec_depth  == Get(model_config, "decoder_layers", DefaultDepth)
        enc_out_dim == LDM_enc_out_dim(latent_dimension, enc_depth, n_total_features)
        dec_inp_dim == LDM_dec_inp_dim(latent_dimension, dec_depth, n_total_features)
        opts == LDM_opts(model_config)
    IN  [GRAPH |-> FALSE,
         n_total_state_features   |-> n_total_state_features,
         n_total_control_features |-> n_total_control_features,
         n_total_features         |-> n_total_features,
         latent_dimension |-> latent_dimension,
         input_order |-> input_order,
         encoder_net  |-> MLP("encoder_net", n_total_features, latent_dimension,
                              enc_out_dim, enc_depth, opts),
         dynamics_net |-> MLP("dynamics_net", enc_out_dim, latent_dimension,
                              dec_inp_dim, proc_depth, opts),
         decoder_net  |-> MLP("decoder_net", dec_inp_dim, latent_dimension,
                              n_total_state_features, dec_depth, opts)]

LDM_encoder(self, w) == MLP_call(self.encoder_net, cat(w.x, w.u))

LDM_decoder(self, z, w) == MLP_call(self.decoder_net, z)

LDM_dynamics(self, z, w) == MLP_call(self.dynamics_net, z)

----------------------------------------------------------------------------
(* GLDM *)

GLDM_opts_mlp(model_config) ==
    [activation     |-> Get(model_config, "activation", "prelu"),
     weight_init    |-> Get(model_config, "weight_init", "xavier_uniform"),
     bias_init      |-> Get(model_config, "bias_init", "zeros"),
     gain           |-> Get(model_config, "gain", "1.0"),
     end_activation |-> Get(model_config, "end_activation", TRUE)]

\* opts_mlp.copy() updated with n_nodes and gcl
GLDM_opts_gnn(model_config, n_nodes) ==
    LET opts_mlp == GLDM_opts_mlp(model_config)
    IN  [activation     |-> opts_mlp.activation,
         weight_init    |-> opts_mlp.weight_init,
         bias_init      |-> opts_mlp.bias_init,
         gain           |-> opts_mlp.gain,
         end_activation |-> opts_mlp.end_activation,
         n_nodes        |-> n_nodes,
         gcl            |-> Get(model_config, "gcl", "sage")]

GLDM_enc_out_dim(latent_dimension, enc_depth, n_total_features) == latent_dimension

\* GLDM_dec_inp_dim with LDM's pass-through
GLDM_dec_inp_dim_pass_through(latent_dimension, dec_depth, n_total_features) ==
    IF dec_depth > 0 THEN latent_dimension ELSE n_total_features

GLDM_dec_inp_dim(latent_dimension, dec_depth, n_total_features) == latent_dimension

\* GLDM_per_node rounding up
GLDM_per_node_ceil(n_total, n_nodes) == (n_total + n_nodes - 1) \div n_nodes

\* the per-node width n_total // n_nodes
GLDM_per_node(n_total, n_nodes) == n_total \div n_nodes

\* the dynamics network's widths, enc_out_dim * n_nodes and dec_inp_dim * n_nodes
GLDM_flat(dim, n_nodes) == dim * n_nodes

GLDM_init(model_config, data_meta) ==
    LET n_total_state_features   == data_meta.n_total_state_features
        n_total_control_features == data_meta.n_total_control_features
        n_total_features         == data_meta.n_total_features
        latent_dimension == Get(model_config, "latent_dimension", DefaultLatent)
        n_nodes == data_meta.config.data.n_nodes
        input_order == Get(model_config, "input_order", "cubic")
        enc_depth  == Get(model_config, "encoder_layers", DefaultDepth)
        proc_depth == Get(model_config, "processor_layers", DefaultDepth)
        dec_depth  == Get(model_config, "decoder_layers", DefaultDepth)
        enc_out_dim == GLDM_enc_out_dim(latent_dimension, enc_depth, n_total_features)
        dec_inp_dim == GLDM_dec_inp_dim(latent_dimension, dec_depth, n_total_features)
        opts_mlp == GLDM_opts_mlp(model_config)
        opts_gnn == GLDM_opts_gnn(model_config, n_nodes)
    IN  [GRAPH |-> TRUE,
         n_total_state_features   |-> n_total_state_features,
         n_total_control_features |-> n_total_control_features,
         n_total_features         |-> n_total_features,
         latent_dimension |-> latent_dimension,
         n_nodes     |-> n_nodes,
         input_order |-> input_order,
         encoder_net  |-> GNN("encoder_net", GLDM_per_node(n_total_features, n_nodes),
                              latent_dimension, enc_out_dim, enc_depth, opts_gnn),
         dynamics_net |-> MLP("dynamics_net", GLDM_flat(enc_out_dim, n_nodes),
                              latent_dimension, GLDM_flat(dec_inp_dim, n_nodes),
                              proc_depth, opts_mlp),
         decoder_net  |-> GNN("decoder_net", dec_inp_dim, latent_dimension,
                              GLDM_per_node(n_total_state_features, n_nodes),
                              dec_depth, opts_gnn)]

GLDM_encoder(self, w) == GNN_call(self.encoder_net, cat(w.x, w.u), w.edge_index)

GLDM_decoder(self, z, w) == GNN_call(self.decoder_net, z, w.edge_index)

GLDM_dynamics(self, z, w) == MLP_call(self.dynamics_net, z)

----------------------------------------------------------------------------
(* Method dispatch on the instance's class *)

encoder(self, w) == IF self.GRAPH THEN GLDM_encoder(self, w) ELSE LDM_encoder(self, w)

decoder(self, z, w) ==
    IF self.GRAPH THEN GLDM_decoder(self, z, w) ELSE LDM_decoder(self, z, w)

dynamics(self, z, w) ==
    IF self.GRAPH THEN GLDM_dynamics(self, z, w) ELSE LDM_dynamics(self, z, w)

\* one call of a stage method, as forward's trace records it
StageCall(fn, z, result) == [fn |-> fn, z |-> z, w |-> "w", result |-> result]

\* forward handing the latent derivative to the decoder
forward_decodes_derivative(self, w) ==
    LET z == encoder(self, w)
    IN  IF ~z.ok
        THEN [ret |-> z, trace |-> <<StageCall("encoder", <<>>, z)>>]
        ELSE
    LET z_dot == dynamics(self, z.value, w)
    IN  IF ~z_dot.ok
        THEN [ret |-> z_dot,
              trace |-> <<StageCall("encoder", <<>>, z),
                          StageCall("dynamics", <<z.value>>, z_dot)>>]
        ELSE
    LET x_hat == decoder(self, z_dot.value, w)
    IN  [ret |-> IF x_hat.ok THEN Ok(<<z.value, z_dot.value, x_hat.value>>) ELSE x_hat,
         trace |-> <<StageCall("encoder", <<>>, z),
                     StageCall("dynamics", <<z.value>>, z_dot),
                     StageCall("decoder", <<z_dot.value>>, x_hat)>>]

\* forward(w): z = encoder(w); z_dot = dynamics(z, w); x_hat = decoder(z, w);
\* return z, z_dot, x_hat.  An exception a stage raises ends forward there.
forward(self, w) ==
    LET z == encoder(self, w)
    IN  IF ~z.ok
        THEN [ret |-> z, trace |-> <<StageCall("encoder", <<>>, z)>>]
        ELSE
    LET z_dot == dynamics(self, z.value, w)
    IN  IF ~z_dot.ok
        THEN [ret |-> z_dot,
              trace |-> <<StageCall("encoder", <<>>, z),
                          StageCall("dynamics", <<z.value>>, z_dot)>>]
        ELSE
    LET x_hat == decoder(self, z.value, w)
    IN  [ret |-> IF x_hat.ok THEN Ok(<<z.value, z_dot.value, x_hat.value>>) ELSE x_hat,
         trace |-> <<StageCall("encoder", <<>>, z),
                     StageCall("dynamics", <<z.value>>, z_dot),
                     StageCall("decoder", <<z.value>>, x_hat)>>]

\* one f-string piece of a report: literal text, a formatted value, a line break
Lit(text) == [kind |-> "lit", text |-> text]
Fmt(value) == [kind |-> "fmt", text |-> value]
NL == [kind |-> "nl", text |-> "\n"]

\* diagnostic_info without the line break after the decoder's line
diagnostic_info_joined_last_line(self) ==
    <<Base_diagnostic_info(self)>>
    \o <<Lit("Encoder: "), Net_diagnostic_info(self.encoder_net), NL>>
    \o <<Lit("Dynamics: "), Net_diagnostic_info(self.dynamics_net), NL>>
    \o <<Lit("Decoder: "), Net_diagnostic_info(self.decoder_net)>>
    \o <<Lit("Input order: "), Fmt(self.input_order)>>

\* diagnostic_info(): the base description, then the four f-strings appended
diagnostic_info(self) ==
    <<Base_diagnostic_info(self)>>
    \o <<Lit("Encoder: "), Net_diagnostic_info(self.encoder_net), NL>>
    \o <<Lit("Dynamics: "), Net_diagnostic_info(self.dynamics_net), NL>>
    \o <<Lit("Decoder: "), Net_diagnostic_info(self.decoder_net), NL>>
    \o <<Lit("Input order: "), Fmt(self.input_order)>>

\* the value of a parameter declared `method: str = 'dopri5'`; given is <<>> when
\* the caller omits the argument and <<m>> when the caller passes m
MethodArg(given) == IF Len(given) = 0 THEN "dopri5" ELSE given[1]

\* LDM_predict dropping the caller's method
LDM_predict_fixed_method(self, x0, w, ts, given, result) ==
    LET call == [fn |-> "predict_continuous",
                 args |-> <<<<"self">>, <<x0>>, w.u.val, <<ts>>>>,
                 model |-> self,
                 method |-> "dopri5", order |-> self.input_order,
                 result |-> result]
    IN  [ret |-> result, trace |-> <<call>>]

\* predict_continuous(self, x0, w.u, ts, method=method, order=self.input_order);
\* result is what the external predictor answers
LDM_predict(self, x0, w, ts, given, result) ==
    LET method == MethodArg(given)
        call == [fn |-> "predict_continuous",
                 args |-> <<<<"self">>, <<x0>>, w.u.val, <<ts>>>>,
                 model |-> self,
                 method |-> method, order |-> self.input_order,
                 result |-> result]
    IN  [ret |-> result, trace |-> <<call>>]

\* predict_graph_continuous(self, x0, w.u, ts, w.edge_index, method=method,
\*                          order=self.input_order)
GLDM_predict(self, x0, w, ts, given, result) ==
    LET method == MethodArg(given)
        call == [fn |-> "predict_graph_continuous",
                 args |-> <<<<"self">>, <<x0>>, w.u.val, <<ts>>, w.edge_index>>,
                 model |-> self,
                 method |-> method, order |-> self.input_order,
                 result |-> result]
    IN  [ret |-> result, trace |-> <<call>>]

predict(self, x0, w, ts, given, result) ==
    IF self.GRAPH THEN GLDM_predict(self, x0, w, ts, given, result)
                  ELSE LDM_predict(self, x0, w, ts, given, result)

\* the constructor of the instance's class
Construct(GRAPH, model_config, data_meta) ==
    IF GRAPH THEN GLDM_init(model_config, data_meta)
             ELSE LDM_init(model_config, data_meta)

----------------------------------------------------------------------------
(* Inputs *)

\* an optional value: <<>> (absent) or <<v>>
Opt(S) == {<<>>} \cup {<<v>> : v \in S}

\* a mapping with key k when o is present, the empty mapping otherwise
Item(k, o) == IF Len(o) = 0 THEN <<>> ELSE (k :> o[1])

StyleKeys == {"activation", "weight_init", "bias_init", "gain", "end_activation", "gcl"}

ModelKeys == {"latent_dimension", "encoder_layers", "processor_layers",
              "decoder_layers", "input_order"} \cup StyleKeys

\* the documented default of each key
Default(k) ==
    CASE k = "latent_dimension" -> 64
      [] k \in {"encoder_layers", "processor_layers", "decoder_layers"} -> 2
      [] k = "activation" -> "prelu"
      [] k = "weight_init" -> "xavier_uniform"
      [] k = "bias_init" -> "zeros"
      [] k = "gain" -> "1.0"
      [] k = "end_activation" -> TRUE
      [] k = "input_order" -> "cubic"
      [] k = "gcl" -> "sage"

\* a value of each key other than its default
Other(k) ==
    CASE k = "latent_dimension" -> MaxLatent
      [] k = "encoder_layers" -> 0
      [] k = "processor_layers" -> 1
      [] k = "decoder_layers" -> 3
      [] k = "activation" -> "relu"
      [] k = "weight_init" -> "kaiming_uniform"
      [] k = "bias_init" -> "ones"
      [] k = "gain" -> "0.5"
      [] k = "end_activation" -> FALSE
      [] k = "input_order" -> "linear"
      [] k = "gcl" -> "gcn"

\* configurations that vary the dimensions: each of latent_dimension, the three
\* depths and input_order absent or present
DimConfigs ==
    { Item("latent_dimension", lat) @@ Item("encoder_layers", e)
      @@ Item("processor_layers", p) @@ Item("decoder_layers", d)
      @@ Item("input_order", io) :
        lat \in Opt(1..MaxLatent), e \in Opt(0..MaxDepth), p \in Opt(0..MaxDepth),
        d \in Opt(0..MaxDepth), io \in Opt({"linear"}) }

\* configurations that vary the keys: any subset of the keys present
KeyConfigs == { [k \in D |-> Other(k)] : D \in SUBSET ModelKeys }

FlatMeta(ns, nc) ==
    [n_total_state_features |-> ns, n_total_control_features |-> nc,
     n_total_features |-> ns + nc]

GraphMeta(ns, nc, n) ==
    [n_total_state_features |-> ns, n_total_control_features |-> nc,
     n_total_features |-> ns + nc, config |-> [data |-> [n_nodes |-> n]]]

Divides(n, m) == m % n = 0

\* metadata of a data set: the feature counts, total = state + control; for a
\* graph data set the node count.  strict: the totals are multiples of n_nodes.
Metas(GRAPH, strict) ==
    IF GRAPH
    THEN { GraphMeta(ns, nc, n) : <<ns, nc, n>> \in
             { t \in (1..MaxState) \X (0..MaxControl) \X (1..MaxNodes) :
                 strict => Divides(t[3], t[1]) /\ Divides(t[3], t[1] + t[2]) } }
    ELSE { FlatMeta(ns, nc) : <<ns, nc>> \in (1..MaxState) \X (0..MaxControl) }

Leads == {<<>>, <<"batch">>}

\* an observation container of the data set described by data_meta
Container(data_meta, lead) ==
    [x |-> Tensor(lead, data_meta.n_total_state_features, <<"w.x">>),
     u |-> Tensor(lead, data_meta.n_total_control_features, <<"w.u">>),
     edge_index |-> <<"w.edge_index">>]

\* the width of the latent the dynamics network takes
LatentWidths(self) == {self.dynamics_net.input_dim, self.dynamics_net.output_dim}

Latents(self, w) == { Tensor(w.x.lead, d, <<"z">>) : d \in LatentWidths(self) }

Trajectories == {Ok(<<"trajectory">>), Raise(<<"solver failed">>)}

----------------------------------------------------------------------------
(* The state machine *)

\* one data set, for the configurations that vary the keys
KeyMetas(GRAPH) ==
    IF GRAPH THEN {GraphMeta(MaxState, MaxControl, 1)}
             ELSE {FlatMeta(MaxState, MaxControl)}

InitWith(Configs, GRAPH, DataMetas, BatchDims) ==
      \E model_config \in Configs, data_meta \in DataMetas, lead \in BatchDims :
        /\ config = model_config
        /\ meta = data_meta
        /\ model = Construct(GRAPH, model_config, data_meta)
        /\ obs = Container(data_meta, lead)
        /\ op = [name |-> "__init__"]
        /\ trace = <<>>
        /\ ret = Ok(<<>>)

Init == \E GRAPH \in BOOLEAN : InitWith(DimConfigs, GRAPH, Metas(GRAPH, TRUE), Leads)

InitAnyMeta ==
    \E GRAPH \in BOOLEAN : InitWith(DimConfigs, GRAPH, Metas(GRAPH, FALSE), Leads)

InitKeys == \E GRAPH \in BOOLEAN : InitWith(KeyConfigs, GRAPH, KeyMetas(GRAPH), {<<>>})

Encoder ==
    /\ op' = [name |-> "encoder"]
    /\ ret' = encoder(model, obs)
    /\ trace' = <<>>
    /\ UNCHANGED <<config, meta, model, obs>>

Dynamics ==
    \E z \in Latents(model, obs) :
        /\ op' = [name |-> "dynamics", z |-> z]
        /\ ret' = dynamics(model, z, obs)
        /\ trace' = <<>>
        /\ UNCHANGED <<config, meta, model, obs>>

Decoder ==
    \E z \in Latents(model, obs) :
        /\ op' = [name |-> "decoder", z |-> z]
        /\ ret' = decoder(model, z, obs)
        /\ trace' = <<>>
        /\ UNCHANGED <<config, meta, model, obs>>

\* Forward keeping the width of the last latent on the instance
Forward_caches_width ==
    LET r == forward(model, obs)
    IN  /\ op' = [name |-> "forward"]
        /\ ret' = r.ret
        /\ trace' = r.trace
        /\ model' = IF r.trace[1].result.ok
                     THEN [model EXCEPT !.latent_dimension = r.trace[1].result.value.dim]
                     ELSE model
        /\ UNCHANGED <<config, meta, obs>>

Forward ==
    LET r == forward(model, obs)
    IN  /\ op' = [name |-> "forward"]
        /\ ret' = r.ret
        /\ trace' = r.trace
        /\ UNCHANGED <<config, meta, model, obs>>

Predict ==
    \E x0 \in {"x0"}, ts \in {"ts"}, given \in Opt({"rk4"}),
       result \in Trajectories :
        LET r == predict(model, x0, obs, ts, given, result)
        IN  /\ op' = [name |-> "predict", x0 |-> x0, ts |-> ts, given |-> given]
            /\ ret' = r.ret
            /\ trace' = r.trace
            /\ UNCHANGED <<config, meta, model, obs>>

DiagnosticInfo ==
    /\ op' = [name |-> "diagnostic_info"]
    /\ ret' = Ok(diagnostic_info(model))
    /\ trace' = <<>>
    /\ UNCHANGED <<config, meta, model, obs>>

Next == Encoder \/ Dynamics \/ Decoder \/ Forward \/ Predict \/ DiagnosticInfo

Spec == Init /\ [][Next]_vars

SpecAnyMeta == InitAnyMeta /\ [][Next]_vars

SpecKeys == InitKeys /\ [][Next]_vars

----------------------------------------------------------------------------
(* Properties *)

IsGraph == model.GRAPH

Nodes == IF IsGraph THEN meta.config.data.n_nodes ELSE 1

ConfiguredLatent == Get(config, "latent_dimension", 64)

ConfiguredDepth(k) == Get(config, k, 2)

ConfiguredOrder == Get(config, "input_order", "cubic")

Called(name) == op.name = name

\* C1: for every configuration the three sub-networks chain: the encoder's output
\* width, the dynamics network's input width and the decoder's input width are
\* equal, so that forward's latent is accepted by the dynamics network and by
\* the decoder.
C1_SubnetsChain ==
    /\ OutWidth(model.encoder_net) = InWidth(model.dynamics_net)
    /\ InWidth(model.dynamics_net) = InWidth(model.decoder_net)
    /\ Called("forward") => ret.ok

ExpectedLatentWidth ==
    IF ~IsGraph /\ ConfiguredDepth("encoder_layers") = 0
    THEN meta.n_total_features
    ELSE ConfiguredLatent * Nodes

C3_PassThroughDims ==
    /\ ~IsGraph =>
        /\ model.encoder_net.output_dim =
             IF ConfiguredDepth("encoder_layers") = 0
             THEN meta.n_total_features ELSE ConfiguredLatent
        /\ model.decoder_net.input_dim =
             IF ConfiguredDepth("decoder_layers") = 0
             THEN meta.n_total_features ELSE ConfiguredLatent
    /\ IsGraph =>
        /\ model.encoder_net.output_dim = ConfiguredLatent
        /\ model.decoder_net.input_dim = ConfiguredLatent

\* C3 witness: an LDM whose encoder passes through while its decoder does not,
\* with a processor depth of its own
C3_Witness ==
    /\ ~IsGraph
    /\ ConfiguredDepth("encoder_layers") = 0
    /\ ConfiguredDepth("decoder_layers") = 1
    /\ ConfiguredDepth("processor_layers") = 2
    /\ meta.n_total_features # ConfiguredLatent

Nets == {model.encoder_net, model.dynamics_net, model.decoder_net}

\* what the instance was built with for key k, as a set: the one value every
\* place that takes the key received
Resolved(k) ==
    CASE k = "latent_dimension" ->
           {model.latent_dimension} \cup {net.latent_dim : net \in Nets}
      [] k = "encoder_layers" -> {model.encoder_net.n_layers}
      [] k = "processor_layers" -> {model.dynamics_net.n_layers}
      [] k = "decoder_layers" -> {model.decoder_net.n_layers}
      [] k = "input_order" -> {model.input_order}
      [] k = "gcl" -> {model.encoder_net.opts.gcl, model.decoder_net.opts.gcl}
      [] OTHER -> {net.opts[k] : net \in Nets}

KeysRead == IF IsGraph THEN ModelKeys ELSE ModelKeys \ {"gcl"}

\* C4: with any subset of the model_config keys missing, each missing key takes
\* its documented default and each present key its own value, in LDM and GLDM;
\* gcl is read by GLDM only.
C4_Defaults ==
    /\ \A k \in KeysRead :
         Resolved(k) = {IF k \in DOMAIN config THEN config[k] ELSE Default(k)}
    /\ ~IsGraph => \A net \in Nets : "gcl" \notin DOMAIN net.opts

\* C4 witness: a GLDM built from a configuration with some keys missing and
\* others present
C4_Witness ==
    /\ IsGraph
    /\ {"gcl", "latent_dimension", "gain"} \cap DOMAIN config = {}
    /\ {"activation", "encoder_layers", "input_order"} \subseteq DOMAIN config

\* C5: predict makes exactly one call, to predict_continuous (LDM) or
\* predict_graph_continuous (GLDM), passing the model, x0, w.u, ts (and w.edge_index
\* for GLDM only), the given method ('dopri5' when omitted) and the configured
\* input_order, and returns that call's result unchanged.
C5_PredictDelegates ==
    Called("predict") =>
        /\ Len(trace) = 1
        /\ trace[1].fn = (IF IsGraph THEN "predict_graph_continuous"
                                     ELSE "predict_continuous")
        /\ trace[1].model = model
        /\ trace[1].args =
             <<<<"self">>, <<op.x0>>, obs.u.val, <<op.ts>>>>
             \o (IF IsGraph THEN <<obs.edge_index>> ELSE <<>>)
        /\ trace[1].method = (IF op.given = <<>> THEN "dopri5" ELSE op.given[1])
        /\ trace[1].order = ConfiguredOrder
        /\ ret.ok = trace[1].result.ok
        /\ ret.value = trace[1].result.value

\* C5 witness: a GLDM predicts with a method of the caller's and a configured order
C5_Witness ==
    /\ Called("predict") /\ IsGraph /\ ret.ok
    /\ op.given = <<"rk4">>
    /\ "input_order" \in DOMAIN config

RECURSIVE SplitLines(_)
\* the lines of a report: its pieces, split at the line breaks
SplitLines(s) ==
    IF s = <<>> THEN << <<>> >>
    ELSE LET rest == SplitLines(Tail(s))
         IN  IF Head(s).kind = "nl"
             THEN << <<>> >> \o rest
             ELSE << <<Head(s)>> \o rest[1] >> \o Tail(rest)

\* C6: diagnostic_info returns the base description, then one line for each of
\* Encoder, Dynamics and Decoder in that order, then a last line holding the
\* configured input_order ('cubic' when absent).
C6_DiagnosticLines ==
    Called("diagnostic_info") =>
        LET s == ret.value
            lines == SplitLines(Tail(s))
        IN  /\ ret.ok
            /\ Head(s).kind = "base"
            /\ Len(lines) = 4
            /\ lines[1] = <<Lit("Encoder: "), Net_diagnostic_info(model.encoder_net)>>
            /\ lines[2] = <<Lit("Dynamics: "), Net_diagnostic_info(model.dynamics_net)>>
            /\ lines[3] = <<Lit("Decoder: "), Net_diagnostic_info(model.decoder_net)>>
            /\ lines[4] = <<Lit("Input order: "), Fmt(ConfiguredOrder)>>

\* C6 witness: the report of a model built with an input_order of its own
C6_Witness ==
    /\ Called("diagnostic_info")
    /\ "input_order" \in DOMAIN config
    /\ config["input_order"] = "linear"

\* the provenance of the latent and of the reconstruction
EncodedVal ==
    <<"encoder_net", "cat", "w.x", "w.u">> \o (IF IsGraph THEN obs.edge_index ELSE <<>>)

DecodedVal ==
    <<"decoder_net">> \o EncodedVal \o (IF IsGraph THEN obs.edge_index ELSE <<>>)

\* C7: forward calls encoder, dynamics, decoder in that order, each once; dynamics
\* and decoder both receive the encoder's latent z; the reconstruction is
\* decoder(encoder(w), w), free of the dynamics network, and the triple returned
\* is (z, z_dot, x_hat).
C7_ForwardSequence ==
    Called("forward") =>
        /\ Len(trace) = 3
        /\ trace[1].fn = "encoder" /\ trace[1].z = <<>>
        /\ trace[1].result.ok
        /\ trace[1].result.value.val = EncodedVal
        /\ LET z == trace[1].result.value
               z_dot == trace[2].result
               x_hat == trace[3].result
           IN  /\ trace[2].fn = "dynamics" /\ trace[2].z = <<z>>
               /\ trace[3].fn = "decoder"  /\ trace[3].z = <<z>>
               /\ z_dot.ok
               /\ z_dot.value.val = <<"dynamics_net">> \o z.val
               /\ x_hat.ok = decoder(model, z, obs).ok
               /\ x_hat.ok => /\ x_hat.value.val = DecodedVal
                              /\ \A i \in 1..Len(x_hat.value.val) :
                                     x_hat.value.val[i] # "dynamics_net"
               /\ ret.ok = x_hat.ok
               /\ ret.ok => ret.value = <<z, z_dot.value, x_hat.value>>

\* C7 witness: forward returned its triple on a GLDM over several nodes
C7_Witness ==
    /\ Called("forward") /\ ret.ok /\ IsGraph /\ Nodes > 1
    /\ Len(ret.value) = 3

\* C8: in GLDM, at every depth, the dynamics network's input and output widths are
\* latent_dimension * n_nodes, the encoder's per-node output and the decoder's
\* per-node input widths are latent_dimension, and n_nodes goes to the encoder
\* and decoder networks but not to the dynamics network.
C8_GraphWidths ==
    IsGraph =>
        /\ model.dynamics_net.input_dim = ConfiguredLatent * Nodes
        /\ model.dynamics_net.output_dim = ConfiguredLatent * Nodes
        /\ model.encoder_net.output_dim = ConfiguredLatent
        /\ model.decoder_net.input_dim = ConfiguredLatent
        /\ model.encoder_net.opts.n_nodes = Nodes
        /\ model.decoder_net.opts.n_nodes = Nodes
        /\ "n_nodes" \notin DOMAIN model.dynamics_net.opts

\* C8 witness: a GLDM over several nodes without encoder or decoder layers
C8_Witness ==
    /\ IsGraph /\ Nodes > 1
    /\ ConfiguredDepth("encoder_layers") = 0
    /\ ConfiguredDepth("decoder_layers") = 0
    /\ ConfiguredLatent # meta.n_total_features

\* q is the floor of total / n
IsFloor(q, total, n) == q * n <= total /\ total < (q + 1) * n

\* C9: GLDM is constructed whether or not the totals are multiples of n_nodes; the
\* encoder's per-node input width is floor(n_total_features / n_nodes) and the
\* decoder's per-node output width floor(n_total_state_features / n_nodes); width
\* times n_nodes equals the total exactly when n_nodes divides it and is strictly
\* less otherwise.
C9_FloorWidths ==
    IsGraph =>
        LET ein == model.encoder_net.input_dim
            dout == model.decoder_net.output_dim
            nf == meta.n_total_features
            ns == meta.n_total_state_features
        IN  /\ IsFloor(ein, nf, Nodes)
            /\ IsFloor(dout, ns, Nodes)
            /\ (ein * Nodes = nf) <=> Divides(Nodes, nf)
            /\ (dout * Nodes = ns) <=> Divides(Nodes, ns)
            /\ ~Divides(Nodes, nf) => ein * Nodes < nf
            /\ ~Divides(Nodes, ns) => dout * Nodes < ns

\* C9 witness: a GLDM built on totals that n_nodes does not divide, whose forward
\* then fails inside the encoder network
C9_Witness ==
    /\ IsGraph
    /\ ~Divides(Nodes, meta.n_total_features)
    /\ ~Divides(Nodes, meta.n_total_state_features)
    /\ Called("forward") /\ ~ret.ok

\* C10: no call of encoder, dynamics, decoder, forward, predict or diagnostic_info
\* changes the instance (its configuration fields and its sub-networks) or writes
\* to the observation container.
C10_Frame == [][model' = model /\ obs' = obs]_vars

\* C10 witness: forward has run to its end on the instance
C10_Witness ==
    /\ Called("forward") /\ ret.ok
    /\ model = Construct(IsGraph, config, meta)

====
